---- MODULE Spec2Model ----
(***************************************************************************)
(* A model of src/ingest_weather.py: the hourly weather ingest pipeline.   *)
(* main() parses its arguments, fetches every requested station's file in  *)
(* chunks, keeps the rows whose assembled datetime lies in the requested   *)
(* range, concatenates the per-station results, coerces the measurement    *)
(* columns, derives is_rain and writes the table.                          *)
(*                                                                         *)
(* A cell of a remote file is text: a sequence of characters.  A table is  *)
(* a sequence of rows, a row a function from column names to cells.  A     *)
(* nullable value is a sequence of length at most one: <<>> is the missing *)
(* marker (NaT, NaN) and <<v>> a present value.  Timestamps count minutes  *)
(* since 2024-01-01 00:00.                                                 *)
(***************************************************************************)
EXTENDS Integers, Sequences, FiniteSets, TLC

VARIABLES args, remote, pc, start_ts, end_ts, station_ids, i, pos, kept,
          df_station, frames, df, out, err, log

vars == <<args, remote, pc, start_ts, end_ts, station_ids, i, pos, kept,
          df_station, frames, df, out, err, log>>

\* ------------------------------------------------------------------ bounds
MaxRows == 3
MaxChunk == 2
MaxArgLen == 3
MaxPostRows == 2

\* ------------------------------------------------------------- sequences
RECURSIVE ConcatAll(_)
ConcatAll(ss) ==
  IF ss = <<>> THEN <<>> ELSE Head(ss) \o ConcatAll(Tail(ss))

RECURSIVE SeqsUpTo(_, _)
SeqsUpTo(S, n) ==
  IF n = 0 THEN {<<>>}
  ELSE LET shorter == SeqsUpTo(S, n - 1)
       IN  shorter \cup {Append(s, x) : s \in {t \in shorter : Len(t) = n - 1}, x \in S}

Min(a, b) == IF a <= b THEN a ELSE b

\* ------------------------------------------------------- nullable values
NaT == <<>>
NaN == <<>>
Some(v) == <<v>>
IsNull(x) == x = <<>>
Val(x) == x[1]

\* ------------------------------------------------------ numeric coercion
DigitChars == {"0", "1", "2", "3", "4", "5", "6", "7", "8", "9"}

DigitVal(c) ==
  CASE c = "0" -> 0 [] c = "1" -> 1 [] c = "2" -> 2 [] c = "3" -> 3
    [] c = "4" -> 4 [] c = "5" -> 5 [] c = "6" -> 6 [] c = "7" -> 7
    [] c = "8" -> 8 [] c = "9" -> 9

AllDigits(s) == s # <<>> /\ \A k \in 1..Len(s) : s[k] \in DigitChars

RECURSIVE DecVal(_)
DecVal(s) ==
  IF s = <<>> THEN 0
  ELSE DecVal(SubSeq(s, 1, Len(s) - 1)) * 10 + DigitVal(s[Len(s)])

\* to_numeric(..., errors="coerce") on one cell of text: a decimal integer,
\* with an optional sign, is its value; anything else, the empty cell
\* included, is the missing value.
ToNumeric(txt) ==
  IF txt # <<>> /\ Head(txt) = "-"
    THEN IF AllDigits(Tail(txt)) THEN Some(0 - DecVal(Tail(txt))) ELSE NaN
    ELSE IF AllDigits(txt) THEN Some(DecVal(txt)) ELSE NaN

\* --------------------------------------------------------------- calendar
IsLeap(y) == (y % 4 = 0 /\ y % 100 # 0) \/ y % 400 = 0

DaysInMonth(y, m) ==
  CASE m = 2 -> IF IsLeap(y) THEN 29 ELSE 28
    [] m \in {4, 6, 9, 11} -> 30
    [] OTHER -> 31

RECURSIVE DaysBeforeMonth(_, _)
DaysBeforeMonth(y, m) ==
  IF m <= 1 THEN 0 ELSE DaysBeforeMonth(y, m - 1) + DaysInMonth(y, m - 1)

DaysBeforeYear(y) ==
  IF y >= 2024
    THEN 365 * (y - 2024) + Cardinality({k \in 2024..(y - 1) : IsLeap(k)})
    ELSE 365 * (y - 2024) - Cardinality({k \in y..2023 : IsLeap(k)})

\* Midnight of a calendar date, in minutes.
DateMinutes(y, m, d) ==
  (DaysBeforeYear(y) + DaysBeforeMonth(y, m) + (d - 1)) * 1440

\* to_datetime(values, format="%Y%m%d", errors="coerce") on the packed
\* integer year*10000 + month*100 + day.
ParseYmd(v) ==
  LET yy == v \div 10000
      mm == (v \div 100) % 100
      dd == v % 100
  IN  IF /\ v >= 16780101 /\ v <= 22611231
         /\ mm \in 1..12
         /\ dd >= 1 /\ dd <= DaysInMonth(yy, mm)
        THEN Some(DateMinutes(yy, mm, dd))
        ELSE NaT

\* pd.to_datetime(dict(year=, month=, day=, hour=, minute=), errors="coerce")
\* on one row: every field is coerced to a number, the date is parsed from
\* the packed integer, and hour and minute are added as durations.
AssembleDatetime(row) ==
  LET y  == ToNumeric(row["Year"])
      m  == ToNumeric(row["Month"])
      d  == ToNumeric(row["Day"])
      h  == ToNumeric(row["Hour"])
      mi == ToNumeric(row["Minute"])
  IN  IF IsNull(y) \/ IsNull(m) \/ IsNull(d) \/ IsNull(h) \/ IsNull(mi)
        THEN NaT
        ELSE LET date == ParseYmd(Val(y) * 10000 + Val(m) * 100 + Val(d))
             IN  IF IsNull(date) THEN NaT
                 ELSE Some(Val(date) + Val(h) * 60 + Val(mi))

\* parse_datetime_frame(frame): one timestamp per row of the frame.
parse_datetime_frame(frame) ==
  [k \in 1..Len(frame) |-> AssembleDatetime(frame[k])]

\* ------------------------------------------------------ Station Fetcher
\* Mask without its upper bound.
MaskNoUpper(dt, s, e) == ~IsNull(dt) /\ Val(dt) >= s

\* Mask with an exclusive upper bound.
MaskStrictEnd(dt, s, e) == ~IsNull(dt) /\ Val(dt) >= s /\ Val(dt) < e

\* Mask written as "not outside": ~((dt < s) | (dt > e)), which the missing
\* marker passes.
MaskNotOutside(dt, s, e) ==
  ~((~IsNull(dt) /\ Val(dt) < s) \/ (~IsNull(dt) /\ Val(dt) > e))

\* mask = (chunk["datetime"] >= start_ts) & (chunk["datetime"] <= end_ts);
\* a comparison with the missing marker is false.
Mask(dt, s, e) == ~IsNull(dt) /\ Val(dt) >= s /\ Val(dt) <= e

\* chunk["datetime"] = parse_datetime_frame(chunk)
AddDatetime(chunk) ==
  LET dts == parse_datetime_frame(chunk)
  IN  [k \in 1..Len(chunk) |-> chunk[k] @@ ("datetime" :> dts[k])]

\* mask.any()
MaskAny(chunk, s, e) ==
  \E k \in 1..Len(chunk) : Mask(chunk[k]["datetime"], s, e)

\* chunk.loc[mask].copy()
LocMask(chunk, s, e) ==
  LET InMask(r) == Mask(r["datetime"], s, e)
  IN  SelectSeq(chunk, InMask)

\* The loop body with mask.all() in place of mask.any().
KeepStepAll(keptSoFar, rawChunk, s, e) ==
  LET chunk == AddDatetime(rawChunk)
  IN  IF \A k \in 1..Len(chunk) : ~IsNull(chunk[k]["datetime"])
                                  /\ Val(chunk[k]["datetime"]) >= s
                                  /\ Val(chunk[k]["datetime"]) <= e
        THEN Append(keptSoFar, LocMask(chunk, s, e))
        ELSE keptSoFar

\* One pass of the loop body over a chunk as read_csv delivers it.
KeepStep(keptSoFar, rawChunk, s, e) ==
  LET chunk == AddDatetime(rawChunk)
  IN  IF MaskAny(chunk, s, e)
        THEN Append(keptSoFar, LocMask(chunk, s, e))
        ELSE keptSoFar

\* The next chunk of at most chunksize rows that the reader yields.
NextChunk(file, p, chunksize) ==
  SubSeq(file, p + 1, Min(p + chunksize, Len(file)))

\* The value returned once the reader is exhausted: the empty table with the
\* expected columns, or the kept chunks concatenated.
StationResult(keptChunks) ==
  IF keptChunks = <<>> THEN <<>> ELSE ConcatAll(keptChunks)

RECURSIVE ReadLoop(_, _, _, _, _, _)
ReadLoop(file, p, keptSoFar, s, e, chunksize) ==
  IF p >= Len(file) THEN keptSoFar
  ELSE ReadLoop(file, Min(p + chunksize, Len(file)),
                KeepStep(keptSoFar, NextChunk(file, p, chunksize), s, e),
                s, e, chunksize)

\* read_station_hourly as a function of the station's file.
read_station_hourly(file, s, e, chunksize) ==
  StationResult(ReadLoop(file, 0, <<>>, s, e, chunksize))

\* ------------------------------------------------------- argument parsing
RECURSIVE Split(_)
\* str.split(","): the pieces between commas, empty pieces included.
Split(str) ==
  IF str = <<>> THEN << <<>> >>
  ELSE LET rest == Split(Tail(str))
       IN  IF Head(str) = ","
             THEN << <<>> >> \o rest
             ELSE << <<Head(str)>> \o Head(rest) >> \o Tail(rest)

RECURSIVE LStrip(_)
LStrip(str) ==
  IF str # <<>> /\ Head(str) = " " THEN LStrip(Tail(str)) ELSE str

RECURSIVE RStrip(_)
RStrip(str) ==
  IF str # <<>> /\ str[Len(str)] = " "
    THEN RStrip(SubSeq(str, 1, Len(str) - 1))
    ELSE str

\* str.strip()
Strip(str) == RStrip(LStrip(str))

\* The list comprehension without its "if s.strip()".
ParseStationsNoFilter(str) ==
  LET pieces == Split(str)
  IN  [k \in 1..Len(pieces) |-> Strip(pieces[k])]

\* [s.strip() for s in args.stations.split(",") if s.strip()]
ParseStations(str) ==
  LET pieces == Split(str)
      stripped == [k \in 1..Len(pieces) |-> Strip(pieces[k])]
      NonEmpty(s) == s # <<>>
  IN  SelectSeq(stripped, NonEmpty)

\* pd.to_datetime(f"{args.start} 00:00")
StartTs(date) == DateMinutes(date.y, date.m, date.d)

\* pd.to_datetime(f"{args.end} 23:59")
EndTs(date) == DateMinutes(date.y, date.m, date.d) + 23 * 60 + 59

\* --------------------------------------------------------- Post-Processor
\* c.lower() on the column names of the table.
LowerName(c) ==
  CASE c = "Station_ID" -> "station_id"
    [] c = "Year" -> "year"
    [] c = "Month" -> "month"
    [] c = "Day" -> "day"
    [] c = "Hour" -> "hour"
    [] c = "Minute" -> "minute"
    [] c = "Latitude" -> "latitude"
    [] OTHER -> c

\* df.columns = [c.lower() for c in df.columns]
LowerRow(row) ==
  [c \in {LowerName(k) : k \in DOMAIN row} |->
     row[CHOOSE k \in DOMAIN row : LowerName(k) = c]]

\* The columns the coercion loop names.
NumericCols ==
  {"temperature", "dew_point_temperature", "station_level_pressure",
   "sea_level_pressure", "wind_speed", "wind_gust", "precipitation",
   "relative_humidity"}

\* for col in [...]: if col in df.columns: df[col] = pd.to_numeric(df[col], errors="coerce")
CoerceRow(row) ==
  [c \in DOMAIN row |-> IF c \in NumericCols THEN ToNumeric(row[c]) ELSE row[c]]

\* is_rain with >= in place of >.
IsRainNonNegative(p) == IF ~IsNull(p) /\ Val(p) >= 0 THEN 1 ELSE 0

\* (df["precipitation"] > 0).astype(int) on one coerced cell.
IsRain(p) == IF ~IsNull(p) /\ Val(p) > 0 THEN 1 ELSE 0

PostProcessRow(row) ==
  LET r == CoerceRow(LowerRow(row))
  IN  r @@ ("is_rain" :> IsRain(r["precipitation"]))

\* The post-processor followed by a dropna() on temperature.
PostProcessTableDropna(table) ==
  LET HasTemp(r) == ~IsNull(r["temperature"])
  IN  SelectSeq([k \in 1..Len(table) |-> PostProcessRow(table[k])], HasTemp)

\* Lines 120-135 on the whole table.
PostProcessTable(table) ==
  [k \in 1..Len(table) |-> PostProcessRow(table[k])]

\* frames.insert(0, df_station)
AppendFrameFront(fs, f) == <<f>> \o fs

\* frames.append(df_station)
AppendFrame(fs, f) == Append(fs, f)

\* The station loop left after its first pass.
LoopDoneAfterFirst(k, ids) == k > 1

\* The station loop is over once every entry of the list has been visited.
LoopDone(k, ids) == k > Len(ids)

\* ----------------------------------------------------------------- inputs
StationA == <<"A">>
StationB == <<"B">>

\* One row of a station file of February 2024.
Row(id, day, hour, minute, temp, precip) ==
  [Station_ID |-> id, Year |-> <<"2", "0", "2", "4">>, Month |-> <<"2">>,
   Day |-> day, Hour |-> hour, Minute |-> minute, Latitude |-> <<"4", "0">>,
   temperature |-> temp, precipitation |-> precip]

\* <<day, hour, minute>> as text: the first and the last minute of 02-28,
\* the first minute of 02-29, the day 02-30 that does not exist, hour 25 of
\* 02-28, and an hour that is no number.
TimePool ==
  { << <<"2", "8">>, <<"0">>, <<"0">> >>,
    << <<"2", "8">>, <<"2", "3">>, <<"5", "9">> >>,
    << <<"2", "9">>, <<"0">>, <<"0">> >>,
    << <<"3", "0">>, <<"0">>, <<"0">> >>,
    << <<"2", "8">>, <<"2", "5">>, <<"0">> >>,
    << <<"2", "8">>, <<"x">>, <<"0">> >> }

TimedRow(id, t, temp, precip) == Row(id, t[1], t[2], t[3], temp, precip)

Feb28 == [y |-> 2024, m |-> 2, d |-> 28]
Feb29 == [y |-> 2024, m |-> 2, d |-> 29]

\* Rows of station A that differ in their time only.
TimeRows == {TimedRow(StationA, t, <<"1">>, <<"2">>) : t \in TimePool}

\* Inputs of one station, over every date range, chunk size and file.
FetchInputs ==
  \E s \in {Feb28, Feb29}, e \in {Feb28, Feb29}, c \in 1..MaxChunk,
     f \in SeqsUpTo(TimeRows, MaxRows) :
    /\ args = [start |-> s, end |-> e, stations |-> StationA, chunksize |-> c]
    /\ remote = (StationA :> f)

InA1 == Row(StationA, <<"2", "8">>, <<"0">>, <<"0">>, <<"1">>, <<"0">>)
InA2 == Row(StationA, <<"2", "8">>, <<"1", "2">>, <<"0">>, <<"2">>, <<"2">>)
InA3 == Row(StationA, <<"2", "8">>, <<"2", "3">>, <<"5", "9">>, <<"3">>, <<>>)
OutA == Row(StationA, <<"2", "7">>, <<"2", "3">>, <<"5", "9">>, <<"1">>, <<"2">>)
InB  == Row(StationB, <<"2", "8">>, <<"0">>, <<"0">>, <<"1">>, <<"2">>)
OutB == Row(StationB, <<"2", "9">>, <<"0">>, <<"0">>, <<"1">>, <<"2">>)

\* Inputs of several stations: every --stations text, two files per station
\* (rows in range, or none).  A station other than A and B has no file.
ListInputs ==
  \E st \in SeqsUpTo({"A", "B", ",", " "}, MaxArgLen),
     fa \in {<<InA1, InA2, InA3>>, <<OutA>>},
     fb \in {<<OutB, InB>>, <<OutB>>} :
    /\ args = [start |-> Feb28, end |-> Feb28, stations |-> st, chunksize |-> 2]
    /\ remote = (StationA :> fa) @@ (StationB :> fb)

CellTexts == {<<"-", "1">>, <<"0">>, <<"2">>, <<"a", "b", "c">>, <<>>}

\* Rows of station A in range that differ in their measurement cells.
CellRows ==
  { Row(StationA, <<"2", "8">>, <<"0">>, <<"0">>, temp, precip) :
      temp \in {<<"1">>, <<"a", "b", "c">>, <<>>}, precip \in CellTexts }

\* Inputs of one station whose rows are all in range, over every cell text.
CellInputs ==
  \E f \in SeqsUpTo(CellRows, MaxPostRows) :
    /\ args = [start |-> Feb28, end |-> Feb28, stations |-> StationA, chunksize |-> 1]
    /\ remote = (StationA :> f)

\* The arguments and the remote files of a run.
Inputs == FetchInputs \/ ListInputs \/ CellInputs

\* ------------------------------------------------------------ the program
Init ==
  /\ Inputs
  /\ pc = "start"
  /\ start_ts = 0
  /\ end_ts = 0
  /\ station_ids = <<>>
  /\ i = 0
  /\ pos = 0
  /\ kept = <<>>
  /\ df_station = <<>>
  /\ frames = <<>>
  /\ df = <<>>
  /\ out = <<>>
  /\ err = ""
  /\ log = <<>>

\* Lines 95-102: the range, the station list, and the empty-list error.
ParseArgs ==
  /\ pc = "start"
  /\ start_ts' = StartTs(args.start)
  /\ end_ts' = EndTs(args.end)
  /\ station_ids' = ParseStations(args.stations)
  /\ IF station_ids' = <<>>
       THEN /\ pc' = "error"
            /\ err' = "No stations provided."
            /\ i' = i
       ELSE /\ pc' = "loop"
            /\ err' = err
            /\ i' = 1
  /\ UNCHANGED <<args, remote, pos, kept, df_station, frames, df, out, log>>

\* Lines 105-106 and 65-69: the call for the next station of the list opens
\* its remote file.
OpenStation ==
  /\ pc = "loop"
  /\ ~LoopDone(i, station_ids)
  /\ station_ids[i] \in DOMAIN remote
  /\ log' = Append(log, station_ids[i])
  /\ kept' = <<>>
  /\ pos' = 0
  /\ pc' = "read"
  /\ UNCHANGED <<args, remote, start_ts, end_ts, station_ids, i, df_station,
                 frames, df, out, err>>

\* Line 69: the remote file cannot be opened (no such station, or the
\* network fails); the exception leaves main.
OpenFail ==
  /\ pc = "loop"
  /\ ~LoopDone(i, station_ids)
  /\ log' = Append(log, station_ids[i])
  /\ pc' = "error"
  /\ err' = "fetch"
  /\ UNCHANGED <<args, remote, start_ts, end_ts, station_ids, i, pos, kept,
                 df_station, frames, df, out>>

\* Lines 69-73: one chunk is read, normalised and filtered.
ReadChunk ==
  /\ pc = "read"
  /\ pos < Len(remote[station_ids[i]])
  /\ kept' = KeepStep(kept, NextChunk(remote[station_ids[i]], pos, args.chunksize),
                      start_ts, end_ts)
  /\ pos' = Min(pos + args.chunksize, Len(remote[station_ids[i]]))
  /\ UNCHANGED <<args, remote, pc, start_ts, end_ts, station_ids, i, df_station,
                 frames, df, out, err, log>>

\* The read failure caught per station: the loop goes on with the next one.
ReadFailSkip ==
  /\ pc = "read"
  /\ pc' = "loop"
  /\ i' = i + 1
  /\ UNCHANGED <<args, remote, start_ts, end_ts, station_ids, pos, kept,
                 df_station, frames, df, out, err, log>>

\* Line 69: reading or parsing the next chunk fails; the exception leaves
\* main.
ReadFail ==
  /\ pc = "read"
  /\ pc' = "error"
  /\ err' = "fetch"
  /\ UNCHANGED <<args, remote, start_ts, end_ts, station_ids, i, pos, kept,
                 df_station, frames, df, out, log>>

\* Lines 75-77 and 107-108: the reader is exhausted, the station's table is
\* returned, and main keeps it unless it is empty.
ReturnStation ==
  /\ pc = "read"
  /\ pos = Len(remote[station_ids[i]])
  /\ df_station' = StationResult(kept)
  /\ frames' = IF df_station' # <<>> THEN AppendFrame(frames, df_station') ELSE frames
  /\ i' = i + 1
  /\ pc' = "loop"
  /\ UNCHANGED <<args, remote, start_ts, end_ts, station_ids, pos, kept, df,
                 out, err, log>>

\* Lines 110-111: no station had a row in range.
NoData ==
  /\ pc = "loop"
  /\ LoopDone(i, station_ids)
  /\ frames = <<>>
  /\ pc' = "error"
  /\ err' = "No data found for the provided stations and date range."
  /\ UNCHANGED <<args, remote, start_ts, end_ts, station_ids, i, pos, kept,
                 df_station, frames, df, out, log>>

\* Line 113: the per-station tables are concatenated.
Aggregate ==
  /\ pc = "loop"
  /\ LoopDone(i, station_ids)
  /\ frames # <<>>
  /\ df' = ConcatAll(frames)
  /\ pc' = "post"
  /\ UNCHANGED <<args, remote, start_ts, end_ts, station_ids, i, pos, kept,
                 df_station, frames, out, err, log>>

\* Lines 120-135: column names, numeric coercion, is_rain.
PostProcess ==
  /\ pc = "post"
  /\ df' = PostProcessTable(df)
  /\ pc' = "write"
  /\ UNCHANGED <<args, remote, start_ts, end_ts, station_ids, i, pos, kept,
                 df_station, frames, out, err, log>>

\* Lines 139-140: the table is written to the output file.
Write ==
  /\ pc = "write"
  /\ out' = <<df>>
  /\ pc' = "done"
  /\ UNCHANGED <<args, remote, start_ts, end_ts, station_ids, i, pos, kept,
                 df_station, frames, df, err, log>>

Next ==
  \/ ParseArgs
  \/ OpenStation
  \/ OpenFail
  \/ ReadChunk
  \/ ReadFail
  \/ ReturnStation
  \/ NoData
  \/ Aggregate
  \/ PostProcess
  \/ Write

Spec == Init /\ [][Next]_vars

\* ------------------------------------------- what the claims speak about
\* The requested window: 00:00 of --start to 23:59 of --end.
WindowStart == StartTs(args.start)
WindowEnd == EndTs(args.end)

\* A row of a remote file whose derived datetime lies in the window.
InWindow(r) ==
  LET d == AssembleDatetime(r)
  IN  d # NaT /\ WindowStart <= d[1] /\ d[1] <= WindowEnd

\* The rows of a station file that lie in the window, in file order.
RowsInWindow(file) == SelectSeq(file, InWindow)

\* A fetched row without its derived column: the row as the file held it.
SourceOf(r) == [c \in DOMAIN r \ {"datetime"} |-> r[c]]

SourcesOf(table) == [k \in 1..Len(table) |-> SourceOf(table[k])]

\* The file of the station that the Station Fetcher returned from last.
LastFile == remote[station_ids[i - 1]]

\* The Station Fetcher has just returned to the loop of main.
Returned == pc = "loop" /\ i > 1

RECURSIVE WindowRowsOfList(_)
\* The rows in the window of every entry of a station list, in list order.
WindowRowsOfList(ids) ==
  IF ids = <<>> THEN <<>>
  ELSE RowsInWindow(remote[Head(ids)]) \o WindowRowsOfList(Tail(ids))

AllKnown == \A k \in 1..Len(station_ids) : station_ids[k] \in DOMAIN remote

\* ---------------------------------------------------------------- claims

\* C1: whenever main() reaches the write step, every row of the written
\* table has a derived datetime d with start 00:00 <= d <= end 23:59, both
\* bounds inclusive.
C1_WrittenRowsInRange ==
  out # <<>> =>
    \A k \in 1..Len(out[1]) :
      LET d == out[1][k]["datetime"]
      IN  d # NaT /\ WindowStart <= d[1] /\ d[1] <= WindowEnd

\* A written table with a row at the first and a row at the last minute of
\* the window, from a file that also held rows outside the window.
C1_Witness ==
  /\ pc = "done"
  /\ \E k \in 1..Len(out[1]) : out[1][k]["datetime"] = <<WindowStart>>
  /\ \E k \in 1..Len(out[1]) : out[1][k]["datetime"] = <<WindowEnd>>
  /\ Len(remote[StationA]) > Len(out[1])

\* C2: read_station_hourly returns all rows of the station's file whose
\* derived datetime lies in [start_ts, end_ts], the rows exactly at a bound
\* included, each exactly once and in the order of the file; each returned
\* row carries its derived datetime.
C2_FetcherReturnsWindowRows ==
  Returned =>
    /\ SourcesOf(df_station) = RowsInWindow(LastFile)
    /\ \A k \in 1..Len(df_station) :
         df_station[k]["datetime"] = AssembleDatetime(SourceOf(df_station[k]))

\* A station read in several chunks whose result holds a row at each bound
\* of the window and leaves out a row of the file.
C2_Witness ==
  /\ Returned
  /\ args.chunksize < Len(LastFile)
  /\ Len(df_station) < Len(LastFile)
  /\ \E k \in 1..Len(df_station) : df_station[k]["datetime"] = <<WindowStart>>
  /\ \E k \in 1..Len(df_station) : df_station[k]["datetime"] = <<WindowEnd>>

\* C3: chunking invariance: the rows kept for a file of N rows are the same
\* whether it is read as one chunk of size N or in chunks of any size
\* smaller than N, chunks without a matching row included.
C3_ChunkingInvariance ==
  (Returned /\ Len(LastFile) >= 1) =>
    LET N == Len(LastFile)
        oneChunk == read_station_hourly(LastFile, start_ts, end_ts, N)
    IN  /\ df_station = oneChunk
        /\ \A c \in 1..(N - 1) :
             read_station_hourly(LastFile, start_ts, end_ts, c) = oneChunk

\* A station read in several chunks of which at least one was skipped and
\* at least one was kept.
C3_Witness ==
  /\ Returned
  /\ args.chunksize > 1
  /\ args.chunksize < Len(LastFile)
  /\ kept # <<>>
  /\ Len(kept) * args.chunksize < Len(LastFile)

\* The station a row belongs to, and where a station first occurs in a list.
StationOf(r) == r["Station_ID"]
FirstSeen(ids, st) == CHOOSE k \in 1..Len(ids) : ids[k] = st /\ \A j \in 1..(k - 1) : ids[j] # st
RowsOfStation(table, st) ==
  LET IsOf(r) == StationOf(r) = st
  IN  SelectSeq(table, IsOf)

\* The aggregated table is the concatenation over the entries of the list,
\* and the Station Fetcher was invoked once per entry.
AggregatedByEntry ==
  /\ SourcesOf(df) = WindowRowsOfList(station_ids)
  /\ log = station_ids

\* Rows are ordered by station first-seen, and a station's rows are its
\* rows in the window, in the order of its file.
OrderedByStation ==
  /\ \A p \in 1..Len(df) : \A q \in p..Len(df) :
       FirstSeen(station_ids, StationOf(df[p])) <= FirstSeen(station_ids, StationOf(df[q]))
  /\ \A k \in 1..Len(station_ids) :
       SourcesOf(RowsOfStation(df, station_ids[k])) = RowsInWindow(remote[station_ids[k]])

NoRepeats(ids) == \A j, k \in 1..Len(ids) : ids[j] = ids[k] => j = k

\* C4 as stated: the aggregated table is the concatenation, in list order,
\* of the non-empty per-station results, one fetch per identifier, rows
\* ordered by station first-seen and then by row order within the station.
C4_AsStated ==
  pc = "post" => (AggregatedByEntry /\ OrderedByStation)

\* C4, amended: the aggregated table is the concatenation, in list order, of
\* the results of the list's entries, one fetch per entry; rows are ordered
\* by station first-seen and then by row order within the station when no
\* identifier occurs twice in the list.
C4_AggregationByEntry ==
  pc = "post" =>
    /\ AggregatedByEntry
    /\ NoRepeats(station_ids) => OrderedByStation

\* The list [A, B] with three rows of A in range and none of B: the table is
\* A's three rows.
C4_Witness ==
  /\ pc = "post"
  /\ station_ids = <<StationA, StationB>>
  /\ RowsInWindow(remote[StationB]) = <<>>
  /\ SourcesOf(df) = <<InA1, InA2, InA3>>

\* A --stations text of blanks and commas only.
BlankStations == \A k \in 1..Len(args.stations) : args.stations[k] \in {" ", ","}

\* C5: when the --stations value is empty or holds only blanks and commas,
\* the run fails with the configuration error before any remote source is
\* contacted.
C5_EmptyListFailsFast ==
  (BlankStations /\ pc # "start") =>
    /\ pc = "error"
    /\ err = "No stations provided."
    /\ log = <<>>
    /\ out = <<>>

\* The run on the text " , " has failed.
C5_Witness ==
  /\ args.stations = <<" ", ",", " ">>
  /\ pc = "error"
  /\ err = "No stations provided."

\* Every requested station has a file and none of its rows is in the window.
AllEmpty ==
  AllKnown /\ \A k \in 1..Len(station_ids) : RowsInWindow(remote[station_ids[k]]) = <<>>

NoDataErr == "No data found for the provided stations and date range."

\* C6: when every requested station yields zero rows in range, the run
\* fails with the "no data" error, only after a fetch was attempted for
\* every station of the list, and writes no output.
C6_NoDataAfterAllFetches ==
  /\ err = NoDataErr =>
       (AllEmpty /\ log = station_ids /\ out = <<>> /\ pc = "error")
  /\ (pc \in {"post", "write", "done"} \/ out # <<>>) => ~AllEmpty
  /\ (pc = "loop" /\ Len(log) = Len(station_ids) /\ AllEmpty) =>
       (ENABLED NoData /\ ~ENABLED Aggregate /\ ~ENABLED OpenStation)

\* The "no data" error of a list of two stations.
C6_Witness ==
  /\ err = NoDataErr
  /\ Len(station_ids) >= 2
  /\ Len(log) = 2

NotNumber(txt) == ~AllDigits(txt)
NumbersOnly(r) ==
  \A c \in {"Year", "Month", "Day", "Hour", "Minute"} : AllDigits(r[c])
DayPastMonthEnd(r) ==
  /\ NumbersOnly(r)
  /\ DecVal(r["Month"]) \in 1..12
  /\ DecVal(r["Day"]) > DaysInMonth(DecVal(r["Year"]), DecVal(r["Month"]))
  /\ DecVal(r["Day"]) <= 99
ClockOutOfRange(r) ==
  /\ NumbersOnly(r)
  /\ (DecVal(r["Hour"]) > 23 \/ DecVal(r["Minute"]) > 59)
Malformed(r) == ~NumbersOnly(r) \/ DayPastMonthEnd(r) \/ ClockOutOfRange(r)

Holds(table, r) == \E j \in 1..Len(table) : SourceOf(table[j]) = r

PrecipText(k) == ConcatAll(frames)[k]["precipitation"]

\* C9: in every row of the written table is_rain is 1 exactly when the
\* coerced precipitation is a number above 0, and 0 otherwise: for 0, a
\* negative number, text that is no number, and a missing cell.
C9_IsRain ==
  out # <<>> =>
    \A k \in 1..Len(out[1]) :
      LET r == out[1][k]
          p == r["precipitation"]
      IN  /\ r["is_rain"] \in {0, 1}
          /\ r["is_rain"] = 1 <=> (p # NaN /\ p[1] > 0)
          /\ PrecipText(k) \in {<<"-", "1">>, <<"0">>, <<"a", "b", "c">>, <<>>}
               => r["is_rain"] = 0
          /\ PrecipText(k) = <<"2">> => r["is_rain"] = 1

\* A written table with a rainy row and a row whose precipitation text is
\* no number.
C9_Witness ==
  /\ pc = "done"
  /\ Len(out[1]) = 2
  /\ out[1][1]["is_rain"] = 1
  /\ PrecipText(2) = <<"a", "b", "c">>
  /\ out[1][2]["is_rain"] = 0

\* The columns that the post-processor leaves alone, before and after.
KeptColumns ==
  { <<"Station_ID", "station_id">>, <<"Year", "year">>, <<"Month", "month">>,
    <<"Day", "day">>, <<"Hour", "hour">>, <<"Minute", "minute">>,
    <<"Latitude", "latitude">>, <<"datetime", "datetime">> }

MeasurementColumns == {"temperature", "precipitation"}

\* C10: post-processing adds and removes no rows and keeps their order;
\* a measurement cell that is no number becomes missing, the row is
\* retained, and every other field of the row is unchanged; only the
\* column names, the coerced cells and is_rain differ.
C10_PostProcessFrame ==
  pc \in {"write", "done"} =>
    LET before == ConcatAll(frames)
    IN  /\ Len(df) = Len(before)
        /\ \A k \in 1..Len(df) :
             /\ DOMAIN df[k] =
                  {c[2] : c \in KeptColumns} \cup MeasurementColumns \cup {"is_rain"}
             /\ \A c \in KeptColumns : df[k][c[2]] = before[k][c[1]]
             /\ \A m \in MeasurementColumns :
                  IF NotNumber(before[k][m]) /\ before[k][m] \in {<<>>, <<"a", "b", "c">>}
                    THEN df[k][m] = NaN
                    ELSE df[k][m] # NaN

\* A written table of two rows whose first row had a temperature that is no
\* number.
C10_Witness ==
  /\ pc = "done"
  /\ Len(out[1]) = 2
  /\ ConcatAll(frames)[1]["temperature"] = <<"a", "b", "c">>
  /\ out[1][1]["temperature"] = NaN
  /\ out[1][2]["temperature"] = <<1>>

====
